---- MODULE Spec2Model ----
(***************************************************************************)
(* Model of the DoublePendulum component                                   *)
(* (src/src/components/DoublePendulum.tsx): the simulation session (State, *)
(* Configuration, history buffers), the animation loop driven by           *)
(* requestAnimationFrame, and the pointer / button handlers.               *)
(*                                                                         *)
(* Numbers.  The component computes in IEEE doubles; the model computes in *)
(* fixed point:                                                            *)
(*   angles        milliradians            (PiMrad = pi)                   *)
(*   velocities    milliradians / second                                   *)
(*   sin, cos      thousandths                                             *)
(*   time          milliseconds (performance.now(), RAF timestamps)        *)
(*   lengths       pixels (1 px = 0.01 m = 1 cm, metersPerPixel)           *)
(*   gravity       cm / s^2  (9.81 m/s^2 = 981)                            *)
(*   damping       hundredths per second (0.05 = 5)                        *)
(*   energy        1e-4 J  (kg cm^2 / s^2)                                 *)
(*                                                                         *)
(* Scheduling.  Every handler is one action that contains the React render *)
(* it causes and the start/stop effect of that render: the stops of        *)
(* playback come from click and pointerdown events, which React renders    *)
(* and whose effects it flushes before the browser runs anything else.     *)
(* An animation frame is one action as well: the state updater of animate  *)
(* and the three buffer updaters it calls are applied together.            *)
(***************************************************************************)
EXTENDS Integers, Sequences, FiniteSets, TLC

(***************************************************************************)
(* Bounds of the model.                                                    *)
(***************************************************************************)
MaxEvents == 5
LongEvents == 206
WarmUp == 4

(***************************************************************************)
(* Program constants.                                                      *)
(***************************************************************************)
centerX == 400
centerY == 120
scale == 1
TrailWindowMs == 3000
EnergyCapacity == 200
MinEnergySamples == 10
MaxDtMs == 16
MinRadius == 8
HitMargin == 8

(***************************************************************************)
(* Fixed-point arithmetic.                                                 *)
(***************************************************************************)
PiMrad == 3142
HalfPiMrad == 1571
TwoPiMrad == 6283

Abs(a) == IF a < 0 THEN -a ELSE a
Max(a, b) == IF a >= b THEN a ELSE b
Min(a, b) == IF a <= b THEN a ELSE b

\* Division rounding towards zero (b > 0).
Div(a, b) == IF a >= 0 THEN a \div b ELSE -((-a) \div b)

\* sin of x milliradians, -HalfPiMrad <= x <= HalfPiMrad, in thousandths:
\* x - x^3/3! + x^5/5! - x^7/7!.
SinSeries(x) ==
    LET x2 == (x * x) \div 1000
        t3 == Div(x * x2, 6000)
        t5 == Div(t3 * x2, 20000)
        t7 == Div(t5 * x2, 42000)
    IN  x - t3 + t5 - t7

\* Math.sin of a milliradians, in thousandths (within [-1000, 1000]).
Sin(a) ==
    LET r == a % TwoPiMrad
        v == IF r <= HalfPiMrad THEN SinSeries(r)
             ELSE IF r <= PiMrad + HalfPiMrad THEN SinSeries(PiMrad - r)
             ELSE SinSeries(r - TwoPiMrad)
    IN  Max(-1000, Min(1000, v))

\* Math.cos of a milliradians, in thousandths.
Cos(a) == Sin(a + HalfPiMrad)

\* atan(n/d) for 0 <= n <= d, d > 0, in milliradians:
\* z (pi/4 + 0.273 (1 - z)) with z = n/d.
AtanUnit(n, d) ==
    LET z == (n * 1000) \div d
    IN  (z * (785 + (273 * (1000 - z)) \div 1000)) \div 1000

\* Math.atan2(y, x) in milliradians, in (-pi, pi].
Atan2(y, x) ==
    LET ay == Abs(y)
        ax == Abs(x)
        first == IF ax = 0 /\ ay = 0 THEN 0
                 ELSE IF ay <= ax THEN AtanUnit(ay, ax)
                 ELSE HalfPiMrad - AtanUnit(ax, ay)
        upper == IF x >= 0 THEN first ELSE PiMrad - first
    IN  IF y >= 0 THEN upper ELSE -upper

\* Math.exp(-damping * dt) in ten-thousandths, damping in hundredths per
\* second and dt in milliseconds: 1 - x + x^2/2 with x = damping * dt.
ExpDecay(dampingC, dtMs) ==
    LET x == dampingC * dtMs
    IN  10000 - x \div 10 + (x * x) \div 20000000

(***************************************************************************)
(* The simulation session: React state, refs and the browser's queue of    *)
(* requested animation frames.                                             *)
(***************************************************************************)
VARIABLES
    isPlaying,        \* useState(false)
    state,            \* PendulumState: angle1, angle2, velocity1, velocity2
    config,           \* PendulumConfig: length1, length2, mass1, mass2, gravity
    enableDamping,    \* useState(false)
    damping,          \* useState(0.05), in hundredths
    trails,           \* trail of mass 2: sequence of Trail
    trails1,          \* trail of mass 1: sequence of Trail
    energyHistory,    \* sequence of energy samples
    dragging,         \* "null", "mass1" or "mass2"
    wasPlayingRef,    \* wasPlayingRef.current
    animationRef,     \* animationRef.current: a frame id, 0 for undefined
    lastTimeRef,      \* lastTimeRef.current
    rafQueue,         \* requested frames: [id, cb], cb the animate closure
    now,              \* performance.now()
    events,           \* number of events (handler calls, frames) so far
    lastOp,           \* the handler that ran last, and the branch it took
    energyLog,        \* every energy sample appended since the last clear
    trails1Log,       \* every point appended to trails1 since its last clear
    trailsLog,        \* every point appended to trails since its last clear
    dragBeganPlaying, \* isPlaying just before the pointer-down that began the drag
    pausedByReset     \* Reset was pressed, and the play toggle not since

session == <<isPlaying, state, config, enableDamping, damping, trails, trails1,
             energyHistory, dragging, wasPlayingRef, animationRef, lastTimeRef,
             rafQueue, now>>
history == <<events, lastOp, energyLog, trails1Log, trailsLog,
             dragBeganPlaying, pausedByReset>>
vars == <<session, history>>

\* The initial condition of useState<PendulumState> and of handleReset.
InitialState ==
    [angle1 |-> HalfPiMrad, angle2 |-> HalfPiMrad, velocity1 |-> 0, velocity2 |-> 0]

InitialConfig ==
    [length1 |-> 150, length2 |-> 150, mass1 |-> 10, mass2 |-> 10, gravity |-> 981]

(***************************************************************************)
(* Kinematics, energy and dynamics.                                        *)
(***************************************************************************)
getPositions(s, c) ==
    LET x1 == centerX + Div(c.length1 * Sin(s.angle1), 1000) * scale
        y1 == centerY + Div(c.length1 * Cos(s.angle1), 1000) * scale
    IN  [x1 |-> x1, y1 |-> y1,
         x2 |-> x1 + Div(c.length2 * Sin(s.angle2), 1000) * scale,
         y2 |-> y1 + Div(c.length2 * Cos(s.angle2), 1000) * scale]

calculateEnergy(s, c) ==
    LET u1 == Div(c.length1 * s.velocity1, 1000)
        u2 == Div(c.length2 * s.velocity2, 1000)
        ke1 == Div(c.mass1 * u1 * u1, 2)
        ke2 == Div(c.mass2 * (u1 * u1 + u2 * u2
                    + Div(2 * u1 * u2 * Cos(s.angle1 - s.angle2), 1000)), 2)
        h1 == Div(c.gravity * c.length1 * Cos(s.angle1), 1000)
        h2 == Div(c.gravity * c.length2 * Cos(s.angle2), 1000)
        pe1 == -(c.mass1 * h1)
        pe2 == -(c.mass2 * (h1 + h2))
    IN  ke1 + ke2 + pe1 + pe2

\* den of updateState, in hundredths.
Denominator(s, c) ==
    Div((2 * c.mass1 + c.mass2) * 1000
        - c.mass2 * Cos(2 * s.angle1 - 2 * s.angle2), 10)

\* w * w * L in cm/s^2, w in milliradians per second and L in pixels.
Centripetal(w, len) == (Div(w, 10) * Div(w, 10) * len) \div 10000

\* a1acc of updateState, in milliradians per second squared.
a1acc(s, c) ==
    LET delta == s.angle1 - s.angle2
        t1 == Div(c.gravity * (2 * c.mass1 + c.mass2) * Sin(s.angle1), 1000)
        t2 == Div(c.mass2 * c.gravity * Sin(s.angle1 - 2 * s.angle2), 1000)
        t3 == 2 * c.mass2
                * Div(Sin(delta) * (Centripetal(s.velocity2, c.length2)
                        + Div(Centripetal(s.velocity1, c.length1) * Cos(delta), 1000)),
                      1000)
    IN  Div(Div((-t1 - t2 - t3) * 1000, c.length1) * 100, Denominator(s, c))

\* a2acc of updateState, in milliradians per second squared.
a2acc(s, c) ==
    LET delta == s.angle1 - s.angle2
        inner == Centripetal(s.velocity1, c.length1) * (c.mass1 + c.mass2)
                 + Div(c.gravity * (c.mass1 + c.mass2) * Cos(s.angle1), 1000)
                 + Div(Centripetal(s.velocity2, c.length2) * c.mass2 * Cos(delta), 1000)
    IN  Div(Div(Div(2 * Sin(delta) * inner, 1000) * 1000, c.length2) * 100,
            Denominator(s, c))

\* An explicit Euler step: the angles advance with the old velocities.
updateStateExplicitEuler(s, cb, dtMs) ==
    LET v1 == s.velocity1 + Div(a1acc(s, cb.config) * dtMs, 1000)
        v2 == s.velocity2 + Div(a2acc(s, cb.config) * dtMs, 1000)
        damped == cb.enableDamping /\ cb.damping > 0
        decay == ExpDecay(cb.damping, dtMs)
        newV1 == IF damped THEN Div(v1 * decay, 10000) ELSE v1
        newV2 == IF damped THEN Div(v2 * decay, 10000) ELSE v2
    IN  [angle1 |-> s.angle1 + Div(s.velocity1 * dtMs, 1000),
         angle2 |-> s.angle2 + Div(s.velocity2 * dtMs, 1000),
         velocity1 |-> newV1,
         velocity2 |-> newV2]

\* updateState(currentState, dt), dt in milliseconds; cb is the closure:
\* config, enableDamping and damping as captured by useCallback.
updateState(s, cb, dtMs) ==
    LET v1 == s.velocity1 + Div(a1acc(s, cb.config) * dtMs, 1000)
        v2 == s.velocity2 + Div(a2acc(s, cb.config) * dtMs, 1000)
        damped == cb.enableDamping /\ cb.damping > 0
        decay == ExpDecay(cb.damping, dtMs)
        newV1 == IF damped THEN Div(v1 * decay, 10000) ELSE v1
        newV2 == IF damped THEN Div(v2 * decay, 10000) ELSE v2
    IN  [angle1 |-> s.angle1 + Div(newV1 * dtMs, 1000),
         angle2 |-> s.angle2 + Div(newV2 * dtMs, 1000),
         velocity1 |-> newV1,
         velocity2 |-> newV2]

(***************************************************************************)
(* Inputs of the model.                                                    *)
(***************************************************************************)
\* Canvas coordinates of pointer-down events: on mass 1 and on mass 2 in the
\* initial condition, two points between the masses, and one far from both.
Pointers == {<<550, 120>>, <<570, 120>>, <<575, 120>>, <<700, 120>>, <<100, 500>>}

\* Canvas coordinates of pointer-move events: below the pivot, and right of it.
MovePointers == {<<400, 270>>, <<550, 120>>}

\* Milliseconds between one animation frame and the last event before it.
Gaps == {0, 16, 3000}

\* Math.random() in thousandths.
Randoms == {0, 999}

\* The values the sliders are moved to.
SliderValues ==
    [length1 |-> {150}, length2 |-> {50, 150}, mass1 |-> {10, 50},
     mass2 |-> {10, 50}, gravity |-> {981}]
\* The values the damping slider is moved to, in hundredths.
DampingValues == {5, 100}

(***************************************************************************)
(* The animation loop and its start/stop effect.                           *)
(***************************************************************************)
\* The animate callback of one render: what useCallback captures.
animateCallback(playing, c, ed, d) ==
    [isPlaying |-> playing, config |-> c, enableDamping |-> ed, damping |-> d]

cancelAnimationFrame(id, queue) == {f \in queue : f.id # id}

\* The id requestAnimationFrame returns: one that names no requested frame
\* and is not the one animationRef still holds.
FreshId(ref, queue) ==
    CHOOSE i \in 1..(Cardinality(queue) + 2) :
        i # ref /\ \A f \in queue : f.id # i

\* A cleanup that cancels nothing.
effectCleanupNoCancel(ref, queue) == queue

\* The cleanup of the start/stop effect.
effectCleanup(ref, queue) ==
    IF ref # 0 THEN cancelAnimationFrame(ref, queue) ELSE queue

\* The start/stop effect of a render whose animate callback is cb, at time t,
\* after the cleanup of the previous run of the effect.
startStopEffect(cb, ref, lastT, queue, t) ==
    LET cleaned == effectCleanup(ref, queue)
    IN  IF cb.isPlaying
        THEN LET id == FreshId(ref, cleaned)
             IN  [animationRef |-> id, lastTimeRef |-> t,
                  rafQueue |-> cleaned \cup {[id |-> id, cb |-> cb]}]
        ELSE [animationRef |-> ref, lastTimeRef |-> lastT,
              rafQueue |-> IF ref # 0 THEN cancelAnimationFrame(ref, cleaned)
                           ELSE cleaned]

\* The render that follows a handler: the effect runs when isPlaying or the
\* animate callback (config, enableDamping, damping) changed.
Render(playing, c, ed, d) ==
    LET cb == animateCallback(playing, c, ed, d)
        e == startStopEffect(cb, animationRef, lastTimeRef, rafQueue, now)
    IN  IF cb = animateCallback(isPlaying, config, enableDamping, damping)
        THEN UNCHANGED <<animationRef, lastTimeRef, rafQueue>>
        ELSE /\ animationRef' = e.animationRef
             /\ lastTimeRef' = e.lastTimeRef
             /\ rafQueue' = e.rafQueue

\* A dt that is not clamped: the whole elapsed time.
frameDtUnclamped(currentTime, lastT) == currentTime - lastT

\* dt of animate in milliseconds: Math.min(elapsed / 1000, 0.016) seconds.
frameDt(currentTime, lastT) == Min(currentTime - lastT, MaxDtMs)

\* A filter that keeps a point of age exactly TrailWindowMs.
keepRecentInclusive(newTrails, currentTime) ==
    SelectSeq(newTrails, LAMBDA trail : currentTime - trail.timestamp <= TrailWindowMs)

\* The filter of the trail updaters: keep only recent trails.
keepRecent(newTrails, currentTime) ==
    SelectSeq(newTrails, LAMBDA trail : currentTime - trail.timestamp < TrailWindowMs)

\* newHistory.slice(0, 200): a truncation that drops the newest samples.
keepFirst(newHistory) ==
    IF Len(newHistory) <= EnergyCapacity THEN newHistory
    ELSE SubSeq(newHistory, 1, EnergyCapacity)

\* newHistory.slice(-200)
keepLast(newHistory) ==
    IF Len(newHistory) <= EnergyCapacity THEN newHistory
    ELSE SubSeq(newHistory, Len(newHistory) - EnergyCapacity + 1, Len(newHistory))

\* animate(currentTime), run by the browser for the requested frame f,
\* gap milliseconds after the last event.
animate(f, gap) ==
    LET currentTime == now + gap
        cb == f.cb
        dt == frameDt(currentTime, lastTimeRef)
        newState == updateState(state, cb, dt)
        pos == getPositions(newState, cb.config)
        energy == calculateEnergy(newState, cb.config)
        p1 == [x |-> pos.x1, y |-> pos.y1, timestamp |-> currentTime]
        p2 == [x |-> pos.x2, y |-> pos.y2, timestamp |-> currentTime]
        rest == rafQueue \ {f}
        id == FreshId(animationRef, rest)
    IN  /\ f \in rafQueue
        /\ now' = currentTime
        /\ events' = events + 1
        /\ UNCHANGED pausedByReset
        /\ UNCHANGED <<isPlaying, config, enableDamping, damping, dragging,
                       wasPlayingRef, dragBeganPlaying>>
        /\ IF ~cb.isPlaying
           THEN /\ rafQueue' = rest
                /\ lastOp' = "animateReturn"
                /\ UNCHANGED <<state, trails, trails1, energyHistory, animationRef,
                               lastTimeRef, energyLog, trails1Log, trailsLog>>
           ELSE /\ lastTimeRef' = currentTime
                /\ animationRef' = id
                /\ rafQueue' = rest \cup {[id |-> id, cb |-> cb]}
                /\ IF dt > 0
                   THEN /\ state' = newState
                        /\ trails1' = keepRecent(Append(trails1, p1), currentTime)
                        /\ trails' = keepRecent(Append(trails, p2), currentTime)
                        /\ energyHistory' = keepLast(Append(energyHistory, energy))
                        /\ energyLog' = Append(energyLog, energy)
                        /\ trails1Log' = Append(trails1Log, p1)
                        /\ trailsLog' = Append(trailsLog, p2)
                        /\ lastOp' = "animateStep"
                   ELSE /\ lastOp' = "animateSkip"
                        /\ UNCHANGED <<state, trails, trails1, energyHistory,
                                       energyLog, trails1Log, trailsLog>>

(***************************************************************************)
(* Handlers.                                                               *)
(***************************************************************************)
handlePlay ==
    /\ events' = events + 1
    /\ pausedByReset' = FALSE
    /\ isPlaying' = ~isPlaying
    /\ Render(~isPlaying, config, enableDamping, damping)
    /\ lastOp' = "play"
    /\ UNCHANGED <<state, config, enableDamping, damping, trails, trails1,
                   energyHistory, dragging, wasPlayingRef, now, energyLog, trails1Log, trailsLog, dragBeganPlaying>>

\* A reset that leaves the energy history as it is.
handleResetKeepingEnergy ==
    /\ events' = events + 1
    /\ pausedByReset' = TRUE
    /\ isPlaying' = FALSE
    /\ state' = InitialState
    /\ trails' = <<>>
    /\ trails1' = <<>>
    /\ Render(FALSE, config, enableDamping, damping)
    /\ lastOp' = "reset"
    /\ trails1Log' = <<>>
    /\ trailsLog' = <<>>
    /\ UNCHANGED <<config, enableDamping, damping, energyHistory, dragging,
                   wasPlayingRef, now, energyLog, dragBeganPlaying>>

handleReset ==
    /\ events' = events + 1
    /\ pausedByReset' = TRUE
    /\ isPlaying' = FALSE
    /\ state' = InitialState
    /\ trails' = <<>>
    /\ energyHistory' = <<>>
    /\ trails1' = <<>>
    /\ Render(FALSE, config, enableDamping, damping)
    /\ lastOp' = "reset"
    /\ energyLog' = <<>>
    /\ trails1Log' = <<>>
    /\ trailsLog' = <<>>
    /\ UNCHANGED <<config, enableDamping, damping, dragging, wasPlayingRef, now,
                   dragBeganPlaying>>

\* An offset of twice the range: (Math.random() - 0.5) * 0.2.
randomOffsetWide(r) == Div(r - 500, 5)

\* randomOffset(): (Math.random() - 0.5) * 0.1, r in thousandths.
randomOffset(r) == Div(r - 500, 10)

\* A Randomize that is ignored while a mass is dragged.
handleRandomizeIdleOnly(r1, r2) ==
    /\ dragging = "null"
    /\ events' = events + 1
    /\ UNCHANGED pausedByReset
    /\ state' = [state EXCEPT !.angle1 = state.angle1 + randomOffset(r1),
                              !.angle2 = state.angle2 + randomOffset(r2)]
    /\ lastOp' = "randomize"
    /\ UNCHANGED <<isPlaying, config, enableDamping, damping, trails, trails1,
                   energyHistory, dragging, wasPlayingRef, animationRef, lastTimeRef,
                   rafQueue, now, energyLog, trails1Log, trailsLog,
                   dragBeganPlaying>>

handleRandomize(r1, r2) ==
    /\ events' = events + 1
    /\ UNCHANGED pausedByReset
    /\ state' = [state EXCEPT !.angle1 = state.angle1 + randomOffset(r1),
                              !.angle2 = state.angle2 + randomOffset(r2)]
    /\ lastOp' = "randomize"
    /\ UNCHANGED <<isPlaying, config, enableDamping, damping, trails, trails1,
                   energyHistory, dragging, wasPlayingRef, animationRef, lastTimeRef,
                   rafQueue, now, energyLog, trails1Log, trailsLog,
                   dragBeganPlaying>>

\* A threshold with twice the margin around the drawn radius.
thresholdWide(mass) == Max(MinRadius, mass) + 2 * HitMargin

\* threshold1 / threshold2 of handlePointerDown.
threshold(mass) == Max(MinRadius, mass) + HitMargin

\* Math.hypot(x - mx, y - my) squared.
distSq(x, y, mx, my) == (x - mx) * (x - mx) + (y - my) * (y - my)

\* A hit test that prefers mass 2 only when it is strictly closer: d2 < d1.
hitTestStrict(x, y) ==
    LET pos == getPositions(state, config)
        d1 == distSq(x, y, pos.x1, pos.y1)
        d2 == distSq(x, y, pos.x2, pos.y2)
    IN  [hit1 |-> d1 <= threshold(config.mass1) * threshold(config.mass1),
         hit2 |-> d2 <= threshold(config.mass2) * threshold(config.mass2),
         closer2 |-> d2 < d1]

\* d1 <= threshold1, d2 <= threshold2, d2 <= d1 of handlePointerDown.
hitTest(x, y) ==
    LET pos == getPositions(state, config)
        d1 == distSq(x, y, pos.x1, pos.y1)
        d2 == distSq(x, y, pos.x2, pos.y2)
    IN  [hit1 |-> d1 <= threshold(config.mass1) * threshold(config.mass1),
         hit2 |-> d2 <= threshold(config.mass2) * threshold(config.mass2),
         closer2 |-> d2 <= d1]

\* The value of dragging after the pointer-down: the if / else if of
\* handlePointerDown.
dragTarget(h, current) ==
    IF h.closer2 /\ h.hit2 THEN "mass2"
    ELSE IF h.hit1 THEN "mass1"
    ELSE current

\* A pointer-down that clears the energy history along with the trails.
handlePointerDownClearingEnergy(x, y) ==
    LET h == hitTest(x, y)
        target == dragTarget(h, dragging)
    IN  /\ events' = events + 1
        /\ UNCHANGED pausedByReset
        /\ UNCHANGED <<state, config, enableDamping, damping, now>>
        /\ IF h.hit1 \/ h.hit2
           THEN /\ wasPlayingRef' = isPlaying
                /\ isPlaying' = FALSE
                /\ trails' = <<>>
                /\ trails1' = <<>>
                /\ energyHistory' = <<>>
                /\ energyLog' = <<>>
                /\ dragging' = target
                /\ Render(FALSE, config, enableDamping, damping)
                /\ trailsLog' = <<>>
                /\ trails1Log' = <<>>
                /\ dragBeganPlaying' =
                       IF dragging = "null" /\ target # "null" THEN isPlaying
                       ELSE dragBeganPlaying
                /\ lastOp' = IF target = "null" THEN "pointerDownNoTarget"
                             ELSE "pointerDown"
           ELSE /\ lastOp' = "pointerDownMiss"
                /\ UNCHANGED <<isPlaying, trails, trails1, energyHistory, dragging,
                               wasPlayingRef, animationRef, lastTimeRef, rafQueue,
                               trailsLog, trails1Log, energyLog, dragBeganPlaying>>

handlePointerDown(x, y) ==
    LET h == hitTest(x, y)
        target == dragTarget(h, dragging)
    IN  /\ events' = events + 1
        /\ UNCHANGED pausedByReset
        /\ UNCHANGED <<state, config, enableDamping, damping, energyHistory, now,
                       energyLog>>
        /\ IF h.hit1 \/ h.hit2
           THEN /\ wasPlayingRef' = isPlaying
                /\ isPlaying' = FALSE
                /\ trails' = <<>>
                /\ trails1' = <<>>
                /\ dragging' = target
                /\ Render(FALSE, config, enableDamping, damping)
                /\ trailsLog' = <<>>
                /\ trails1Log' = <<>>
                /\ dragBeganPlaying' =
                       IF dragging = "null" /\ target # "null" THEN isPlaying
                       ELSE dragBeganPlaying
                /\ lastOp' = IF target = "null" THEN "pointerDownNoTarget"
                             ELSE "pointerDown"
           ELSE /\ lastOp' = "pointerDownMiss"
                /\ UNCHANGED <<isPlaying, trails, trails1, dragging, wasPlayingRef,
                               animationRef, lastTimeRef, rafQueue, trailsLog,
                               trails1Log, dragBeganPlaying>>

\* A pointer-move that measures the angle of mass 2 from the pivot as well.
handlePointerMoveFromPivot(x, y) ==
    LET pos == getPositions(state, config)
        newAngle1 == Atan2(x - centerX, y - centerY)
        newAngle2 == Atan2(x - centerX, y - centerY)
    IN  /\ events' = events + 1
        /\ UNCHANGED pausedByReset
        /\ UNCHANGED <<isPlaying, config, enableDamping, damping, trails1,
                       energyHistory, dragging, wasPlayingRef, animationRef,
                       lastTimeRef, rafQueue, now, energyLog,
                       trails1Log, dragBeganPlaying>>
        /\ IF dragging = "null"
           THEN /\ lastOp' = "pointerMoveIdle"
                /\ UNCHANGED <<state, trails, trailsLog>>
           ELSE /\ state' = IF dragging = "mass1"
                            THEN [state EXCEPT !.angle1 = newAngle1,
                                               !.velocity1 = 0, !.velocity2 = 0]
                            ELSE [state EXCEPT !.angle2 = newAngle2,
                                               !.velocity1 = 0, !.velocity2 = 0]
                /\ trails' = <<>>
                /\ trailsLog' = <<>>
                /\ lastOp' = "pointerMove"

handlePointerMove(x, y) ==
    LET pos == getPositions(state, config)
        newAngle1 == Atan2(x - centerX, y - centerY)
        newAngle2 == Atan2(x - pos.x1, y - pos.y1)
    IN  /\ events' = events + 1
        /\ UNCHANGED pausedByReset
        /\ UNCHANGED <<isPlaying, config, enableDamping, damping, trails1,
                       energyHistory, dragging, wasPlayingRef, animationRef,
                       lastTimeRef, rafQueue, now, energyLog,
                       trails1Log, dragBeganPlaying>>
        /\ IF dragging = "null"
           THEN /\ lastOp' = "pointerMoveIdle"
                /\ UNCHANGED <<state, trails, trailsLog>>
           ELSE /\ state' = IF dragging = "mass1"
                            THEN [state EXCEPT !.angle1 = newAngle1,
                                               !.velocity1 = 0, !.velocity2 = 0]
                            ELSE [state EXCEPT !.angle2 = newAngle2,
                                               !.velocity1 = 0, !.velocity2 = 0]
                /\ trails' = <<>>
                /\ trailsLog' = <<>>
                /\ lastOp' = "pointerMove"

\* onPointerUp and onPointerLeave.
handlePointerUp ==
    /\ events' = events + 1
    /\ UNCHANGED pausedByReset
    /\ UNCHANGED <<state, config, enableDamping, damping, trails, trails1,
                   energyHistory, wasPlayingRef, now, energyLog,
                   trails1Log, trailsLog, dragBeganPlaying>>
    /\ IF dragging = "null"
       THEN /\ lastOp' = "pointerUpIdle"
            /\ UNCHANGED <<isPlaying, dragging, animationRef, lastTimeRef, rafQueue>>
       ELSE /\ dragging' = "null"
            /\ isPlaying' = (IF wasPlayingRef THEN TRUE ELSE isPlaying)
            /\ Render(IF wasPlayingRef THEN TRUE ELSE isPlaying, config,
                      enableDamping, damping)
            /\ lastOp' = "pointerUp"

\* onValueChange of a Physics Parameters slider.
setConfig(field, value) ==
    /\ events' = events + 1
    /\ UNCHANGED pausedByReset
    /\ value # config[field]
    /\ config' = [config EXCEPT ![field] = value]
    /\ Render(isPlaying, [config EXCEPT ![field] = value], enableDamping, damping)
    /\ lastOp' = "setConfig"
    /\ UNCHANGED <<isPlaying, state, enableDamping, damping, trails, trails1,
                   energyHistory, dragging, wasPlayingRef, now, energyLog, trails1Log, trailsLog, dragBeganPlaying>>

\* onCheckedChange of the damping switch.
setEnableDamping ==
    /\ events' = events + 1
    /\ UNCHANGED pausedByReset
    /\ enableDamping' = ~enableDamping
    /\ Render(isPlaying, config, ~enableDamping, damping)
    /\ lastOp' = "setEnableDamping"
    /\ UNCHANGED <<isPlaying, state, config, damping, trails, trails1,
                   energyHistory, dragging, wasPlayingRef, now, energyLog, trails1Log, trailsLog, dragBeganPlaying>>

\* onValueChange of the damping slider, rendered while damping is enabled.
setDamping(value) ==
    /\ events' = events + 1
    /\ UNCHANGED pausedByReset
    /\ enableDamping
    /\ value # damping
    /\ damping' = value
    /\ Render(isPlaying, config, enableDamping, value)
    /\ lastOp' = "setDamping"
    /\ UNCHANGED <<isPlaying, state, config, enableDamping, trails, trails1,
                   energyHistory, dragging, wasPlayingRef, now, energyLog,
                   trails1Log, trailsLog, dragBeganPlaying>>

\* The Energy Display: "Dissipative" with damping enabled, the percentage
\* conserved (whole percent here) against energyHistory[0] once more than 10
\* samples are held, "N/A" before that.  A reference of 0 divides by zero.
energyDisplay ==
    LET currentEnergy == calculateEnergy(state, config)
        reference == energyHistory[1]
    IN  IF enableDamping THEN [kind |-> "dissipative"]
        ELSE IF Len(energyHistory) > MinEnergySamples
        THEN IF reference = 0 THEN [kind |-> "nan", reference |-> reference]
             ELSE [kind |-> "percent", reference |-> reference,
                   value |-> 100 - Div(Abs(currentEnergy - reference) * 100,
                                       Abs(reference))]
        ELSE [kind |-> "n/a"]

(***************************************************************************)
(* Specification.                                                          *)
(***************************************************************************)
Init ==
    /\ isPlaying = FALSE
    /\ state = InitialState
    /\ config = InitialConfig
    /\ enableDamping = FALSE
    /\ damping = 5
    /\ trails = <<>>
    /\ trails1 = <<>>
    /\ energyHistory = <<>>
    /\ dragging = "null"
    /\ wasPlayingRef = FALSE
    /\ animationRef = 0
    /\ lastTimeRef = 0
    /\ rafQueue = {}
    /\ now = 0
    /\ events = 0
    /\ lastOp = "init"
    /\ energyLog = <<>>
    /\ trails1Log = <<>>
    /\ trailsLog = <<>>
    /\ dragBeganPlaying = FALSE
    /\ pausedByReset = FALSE

\* The events of the model, each within the bound on their number.
Frame ==
    /\ events < MaxEvents
    /\ \E f \in rafQueue : \E gap \in Gaps : animate(f, gap)
PlayClick == events < MaxEvents /\ handlePlay
ResetClick == events < MaxEvents /\ handleReset
ChaosClick ==
    /\ events < MaxEvents
    /\ \E r1 \in Randoms : \E r2 \in Randoms : handleRandomize(r1, r2)
PointerDown ==
    /\ events < MaxEvents
    /\ \E p \in Pointers : handlePointerDown(p[1], p[2])
PointerMove ==
    /\ events < MaxEvents
    /\ \E p \in MovePointers : handlePointerMove(p[1], p[2])
PointerUp == events < MaxEvents /\ handlePointerUp
SliderChange ==
    /\ events < MaxEvents
    /\ \E field \in DOMAIN SliderValues : \E value \in SliderValues[field] :
           setConfig(field, value)
DampingSwitch == events < MaxEvents /\ setEnableDamping
DampingSlider ==
    /\ events < MaxEvents
    /\ \E value \in DampingValues : setDamping(value)

Next ==
    \/ Frame
    \/ PlayClick
    \/ ResetClick
    \/ ChaosClick
    \/ PointerDown
    \/ PointerMove
    \/ PointerUp
    \/ SliderChange
    \/ DampingSwitch
    \/ DampingSlider

Spec == Init /\ [][Next]_vars

(***************************************************************************)
(* A long run: Play and Reset are pressed during the first WarmUp events   *)
(* only, and the frames arrive 16 ms apart.                                *)
(***************************************************************************)
SteadyFrame ==
    /\ events < LongEvents
    /\ \E f \in rafQueue : animate(f, MaxDtMs)
EarlyPlayClick == events < WarmUp /\ handlePlay
EarlyResetClick == events < WarmUp /\ handleReset

LongNext ==
    \/ SteadyFrame
    \/ EarlyPlayClick
    \/ EarlyResetClick

LongSpec == Init /\ [][LongNext]_vars

(***************************************************************************)
(* Properties.                                                             *)
(***************************************************************************)

\* C1: right after Reset, whatever the state it was pressed in, both angles
\* are pi/2, both velocities are 0, and the two trails and the energy history
\* are empty.
ResetRestoresInitialCondition ==
    lastOp = "reset" =>
        /\ state.angle1 = HalfPiMrad /\ state.angle2 = HalfPiMrad
        /\ state.velocity1 = 0 /\ state.velocity2 = 0
        /\ trails = <<>> /\ trails1 = <<>> /\ energyHistory = <<>>

\* Reset was pressed while a mass was being dragged, in a run that was playing
\* before the drag and in which frames had run.
ResetDuringDragAfterFrames ==
    lastOp = "reset" /\ dragging # "null" /\ wasPlayingRef /\ now > 0

\* C2: a pointer-down in Idle within the hit-radius of at least one mass
\* enters Dragging, of a mass whose hit-radius contains the pointer.
PointerDownInRangeStartsDrag ==
    [][\A p \in Pointers :
          LET h == hitTest(p[1], p[2])
          IN  (dragging = "null" /\ (h.hit1 \/ h.hit2)
               /\ handlePointerDown(p[1], p[2]))
              => \/ dragging' = "mass1" /\ h.hit1
                 \/ dragging' = "mass2" /\ h.hit2]_vars

\* C3: a pointer-up or pointer-leave that ends a drag returns to Idle, and the
\* simulation runs again if it ran just before the pointer-down that began
\* the drag.
DragEndResumesPlayback ==
    lastOp = "pointerUp" =>
        /\ dragging = "null"
        /\ dragBeganPlaying => isPlaying

\* C4: while a mass is dragged the simulation is not playing and no
\* integration step is applied.
NoStepWhileDragging ==
    dragging # "null" => (~isPlaying /\ lastOp # "animateStep")

\* C5 as stated: right after a pointer-down that enters Dragging, the energy
\* history is empty, as the trails are.
DragStartClearsEnergyHistory ==
    lastOp = "pointerDown" =>
        energyHistory = <<>> /\ trails = <<>> /\ trails1 = <<>>

\* C5 as amended: a pointer-down that enters Dragging empties both trails and
\* leaves the energy history as it was.
DragStartClearsTrailsOnly ==
    [][\A p \in Pointers :
          LET h == hitTest(p[1], p[2])
          IN  ((h.hit1 \/ h.hit2) /\ handlePointerDown(p[1], p[2])
               /\ dragging' # "null")
              => /\ trails' = <<>> /\ trails1' = <<>>
                 /\ energyHistory' = energyHistory]_vars

\* A drag was entered with energy samples on record.
DragStartedWithEnergyOnRecord ==
    lastOp = "pointerDown" /\ dragging # "null" /\ energyHistory # <<>>

\* C6: while playback is stopped no animation frame is requested, and an
\* integration step is applied only while playing; at most one frame is
\* requested at any time, the one animationRef holds, with the animate
\* callback of the latest render.
NoOrphanFrame ==
    /\ ~isPlaying => rafQueue = {}
    /\ lastOp = "animateStep" => isPlaying
    /\ \A f \in rafQueue :
          /\ f.id = animationRef
          /\ f.cb = animateCallback(isPlaying, config, enableDamping, damping)

\* Playback was stopped after frames had run with a re-created callback.
StoppedAfterCallbackChange ==
    /\ lastOp \in {"play", "reset", "pointerDown"}
    /\ ~isPlaying /\ animationRef # 0 /\ now > 0
    /\ config # InitialConfig

\* C7: the energy history holds at most 200 samples: the most recent
\* min(n, 200) of the n samples appended since the last clear, oldest first.
EnergyHistoryIsMostRecent ==
    LET n == Len(energyLog)
        k == Min(n, EnergyCapacity)
    IN  /\ Len(energyHistory) <= EnergyCapacity
        /\ Len(energyHistory) = k
        /\ \A i \in 1..k : energyHistory[i] = energyLog[n - k + i]

\* More than 200 samples were appended, and the oldest was dropped.
EnergyHistoryOverflowed ==
    /\ Len(energyLog) > EnergyCapacity
    /\ energyHistory[1] # energyLog[1]

\* The points of log within the window at the time of its last append.
WithinWindow(log) ==
    IF log = <<>> THEN <<>>
    ELSE SelectSeq(log, LAMBDA p :
            log[Len(log)].timestamp - p.timestamp < TrailWindowMs)

\* C8: each trail holds, in insertion order, exactly the points appended
\* since its last clear whose age at the last append is below 3000 ms.
TrailsHoldExactlyTheWindow ==
    /\ trails1 = WithinWindow(trails1Log)
    /\ trails = WithinWindow(trailsLog)

\* An append removed a point of age exactly 3000 ms, and a later append kept
\* a younger one.
TrailEvictedAtWindowEdge ==
    /\ Len(trails1Log) = 3 /\ Len(trails1) = 2
    /\ trails1Log[2].timestamp - trails1Log[1].timestamp = TrailWindowMs

\* C9: the percentage conserved compares the current energy with the first
\* sample recorded since the last clear of the energy history.
ConservedComparesWithFirstSample ==
    energyDisplay.kind = "percent" => energyDisplay.reference = energyLog[1]

\* C10 as stated: Randomize never changes the angles while a mass is dragged.
RandomizeOnlyFromIdle ==
    lastOp = "randomize" => dragging = "null"

\* C10 as amended: Randomize is available in Idle and in Dragging alike,
\* whether playing or paused.
RandomizeAvailableInEveryState ==
    \A r1 \in Randoms : \A r2 \in Randoms : ENABLED handleRandomize(r1, r2)

\* Randomize changed the angles while a mass was being dragged.
RandomizedWhileDragging ==
    lastOp = "randomize" /\ dragging # "null" /\ state.angle1 # HalfPiMrad

\* C11: Randomize moves each angle by at most 0.05 rad (50 milliradians) and
\* leaves both velocities, both trails, the energy history, the configuration,
\* the play/pause flag and the drag state as they were.
RandomizeShiftsAnglesOnly ==
    [][\A r1 \in Randoms : \A r2 \in Randoms :
          handleRandomize(r1, r2)
          => /\ Abs(state'.angle1 - state.angle1) <= 50
             /\ Abs(state'.angle2 - state.angle2) <= 50
             /\ state'.velocity1 = state.velocity1
             /\ state'.velocity2 = state.velocity2
             /\ UNCHANGED <<trails, trails1, energyHistory, config, isPlaying,
                            dragging>>]_vars

\* Randomize was pressed while playing, with the pendulum in motion and
\* points in every buffer.
RandomizedInMotion ==
    /\ lastOp = "randomize" /\ isPlaying
    /\ state.velocity1 # 0 /\ state.velocity2 # 0
    /\ trails # <<>> /\ trails1 # <<>> /\ energyHistory # <<>>

\* The pointer at (x, y) is farther from the mass at (mx, my) than the
\* hit-radius of that mass: its drawn radius, at least 8, plus 8 pixels.
OutsideHitRadius(x, y, mx, my, mass) ==
    LET radius == Max(MinRadius, mass) + HitMargin
    IN  distSq(x, y, mx, my) > radius * radius

\* C12: a pointer-down in Idle outside the hit-radius of both masses changes
\* nothing: the drag state, the play/pause flag, the remembered was-playing
\* flag, the State, both trails and the energy history stay as they were.
PointerDownMissChangesNothing ==
    [][\A p \in Pointers :
          LET pos == getPositions(state, config)
          IN  (/\ dragging = "null"
               /\ OutsideHitRadius(p[1], p[2], pos.x1, pos.y1, config.mass1)
               /\ OutsideHitRadius(p[1], p[2], pos.x2, pos.y2, config.mass2)
               /\ handlePointerDown(p[1], p[2]))
              => UNCHANGED <<dragging, isPlaying, wasPlayingRef, state, trails,
                             trails1, energyHistory, animationRef, rafQueue>>]_vars

\* A pointer-down missed both masses in Idle while the simulation was playing
\* with points in every buffer.
PointerDownMissedWhilePlaying ==
    /\ lastOp = "pointerDownMiss" /\ dragging = "null" /\ isPlaying
    /\ trails # <<>> /\ trails1 # <<>> /\ energyHistory # <<>>

\* C13: every integration step is taken with a dt above 0 and at most 1/60 s
\* (60 dt <= 1000 ms), whatever the time since the previous callback; an
\* animation callback whose elapsed time is 0 or less takes no step and
\* appends nothing to either trail or to the energy history.
StepDtWithinBounds ==
    [][LET cb == animateCallback(isPlaying, config, enableDamping, damping)
           elapsed == now' - lastTimeRef
       IN  /\ lastOp' = "animateStep"
               => \E dt \in 1..elapsed :
                     /\ 60 * dt <= 1000
                     /\ state' = updateState(state, cb, dt)
           /\ (lastOp' \in {"animateStep", "animateSkip", "animateReturn"}
                /\ elapsed <= 0)
               => UNCHANGED <<state, trails, trails1, energyHistory>>]_vars

\* The first step after a drag that interrupted playback came 3000 ms or
\* more after the resume.
StepAfterLongGapOnResume ==
    /\ lastOp = "animateStep" /\ wasPlayingRef /\ dragging = "null"
    /\ now >= 3000 /\ Len(energyLog) = 1

\* C14: with damping disabled, the total energy of every state of a run of
\* repeated steps differs from the total energy of the state the run began
\* in by less than a bound relative to that initial energy; the bound taken
\* here is the most generous one, the whole of the initial energy.  The runs
\* are those from the initial condition, whose samples energyLog holds.
EnergyStaysNearInitial ==
    LET initialEnergy == calculateEnergy(InitialState, config)
    IN  ~enableDamping
        => \A i \in 1..Len(energyLog) :
              Abs(energyLog[i] - initialEnergy) <= Abs(initialEnergy)

\* C15: after a pointer-down within the hit-radius of both masses, the mass
\* dragged is the one closer to the pointer, and mass 2 when the two
\* distances are equal.
CloserMassIsDragged ==
    [][\A p \in Pointers :
          LET pos == getPositions(state, config)
              d1 == distSq(p[1], p[2], pos.x1, pos.y1)
              d2 == distSq(p[1], p[2], pos.x2, pos.y2)
          IN  (/\ ~OutsideHitRadius(p[1], p[2], pos.x1, pos.y1, config.mass1)
               /\ ~OutsideHitRadius(p[1], p[2], pos.x2, pos.y2, config.mass2)
               /\ handlePointerDown(p[1], p[2]))
              => dragging' = IF d2 < d1 THEN "mass2"
                             ELSE IF d1 < d2 THEN "mass1"
                             ELSE "mass2"]_vars

\* Mass 2 is dragged after a pointer-down at equal distances from the two
\* masses: with mass 1 at (550, 120), mass 2 at (600, 120) and hit-radii of
\* 58, the only pointer of the model that selects mass 2 is (575, 120).
DraggedMass2OnTie ==
    /\ lastOp = "pointerDown" /\ dragging = "mass2"
    /\ state = InitialState
    /\ config.mass1 = 50 /\ config.mass2 = 50 /\ config.length2 = 50

\* C16: a pointer-down that enters Dragging records in wasPlayingRef whether
\* the simulation was playing, pauses the simulation and leaves both trails
\* empty; and a pointer-down pauses a playing simulation only when Dragging
\* is entered.
PointerDownPausesOnlyOnDragEntry ==
    [][\A p \in Pointers :
          handlePointerDown(p[1], p[2])
          => /\ (dragging = "null" /\ dragging' # "null")
                 => /\ wasPlayingRef' = isPlaying
                    /\ ~isPlaying'
                    /\ trails' = <<>> /\ trails1' = <<>>
             /\ (isPlaying /\ ~isPlaying') => dragging' # "null"]_vars

\* C17: a pointer-move while a mass is dragged sets the angle of that mass
\* alone (angle1 from the fixed pivot to the pointer, angle2 from the
\* position of joint 1 in the current state to the pointer), sets both
\* velocities to 0 and empties the trail of mass 2; the other angle, the
\* configuration, the energy history and the drag state stay as they were.
\* A pointer-move or a pointer-up in Idle changes nothing.
PointerMoveSetsTargetAngle ==
    [][/\ \A p \in MovePointers :
             handlePointerMove(p[1], p[2])
             => LET joint1 == getPositions(state, config)
                IN  /\ dragging = "mass1"
                        => state' = [angle1 |-> Atan2(p[1] - centerX, p[2] - centerY),
                                     angle2 |-> state.angle2,
                                     velocity1 |-> 0, velocity2 |-> 0]
                    /\ dragging = "mass2"
                        => state' = [angle1 |-> state.angle1,
                                     angle2 |-> Atan2(p[1] - joint1.x1,
                                                      p[2] - joint1.y1),
                                     velocity1 |-> 0, velocity2 |-> 0]
                    /\ dragging # "null" => trails' = <<>>
                    /\ UNCHANGED <<config, energyHistory, dragging>>
                    /\ dragging = "null" => UNCHANGED session
       /\ (dragging = "null" /\ handlePointerUp) => UNCHANGED session]_vars

\* Mass 2 was moved by the pointer after an integration step had moved
\* joint 1 and recorded points and an energy sample.
Mass2MovedAfterStep ==
    /\ lastOp = "pointerMove" /\ dragging = "mass2"
    /\ state.angle1 # HalfPiMrad /\ state.velocity1 = 0
    /\ energyHistory # <<>>

\* C18: an integration step is semi-implicit Euler: each new velocity is the
\* old velocity plus acceleration times dt, both multiplied by the same decay
\* exp(-damping dt) exactly when damping is enabled and its coefficient is
\* above 0, and each new angle is the old angle plus the new (damped)
\* velocity times dt.
StepIsSemiImplicitEuler ==
    [][lastOp' = "animateStep"
       => LET dt == frameDt(now', lastTimeRef)
              damped == enableDamping /\ damping > 0
              decay == IF damped THEN ExpDecay(damping, dt) ELSE 10000
              w1 == state.velocity1 + Div(a1acc(state, config) * dt, 1000)
              w2 == state.velocity2 + Div(a2acc(state, config) * dt, 1000)
          IN  /\ state'.velocity1 = (IF damped THEN Div(w1 * decay, 10000) ELSE w1)
              /\ state'.velocity2 = (IF damped THEN Div(w2 * decay, 10000) ELSE w2)
              /\ state'.angle1 = state.angle1 + Div(state'.velocity1 * dt, 1000)
              /\ state'.angle2 = state.angle2 + Div(state'.velocity2 * dt, 1000)
              /\ damped => decay < 10000]_vars

\* A damped step was taken from a state in motion, so that the old, the
\* undamped and the damped velocity all differ.
DampedStepInMotion ==
    /\ lastOp = "animateStep" /\ enableDamping
    /\ Len(energyLog) >= 2
    /\ state.velocity1 # 0

\* C19: in every reachable state the trail of mass 1 and the trail of mass 2
\* hold the same number of points with the same timestamps in the same
\* order, and the timestamps of each trail never decrease along it.
TrailsInLockstep ==
    /\ Len(trails1) = Len(trails)
    /\ \A i \in 1..Len(trails1) :
          i <= Len(trails) => trails1[i].timestamp = trails[i].timestamp
    /\ \A i \in 1..(Len(trails1) - 1) :
          trails1[i].timestamp <= trails1[i + 1].timestamp
    /\ \A i \in 1..(Len(trails) - 1) :
          trails[i].timestamp <= trails[i + 1].timestamp

\* C20: from a Reset until the play toggle is pressed the simulation stays
\* paused and the trails and the energy history stay empty, whatever pointer
\* event (down, move, up or leave) arrives; the State is the initial
\* condition right after the Reset.
ResetStaysPausedUntilPlay ==
    /\ pausedByReset
        => /\ ~isPlaying
           /\ trails = <<>> /\ trails1 = <<>> /\ energyHistory = <<>>
    /\ lastOp = "reset" => state = InitialState
====
